---------------------------- MODULE Spec2Model ----------------------------
(***************************************************************************)
(* A model of the cell-annotation-service pilot's sparse-matrix codec:     *)
(*                                                                         *)
(*   src/src/anndata_to_bq.py       write_avro, dump_cell_info,            *)
(*                                  dump_feature_info, dump_core_matrix,   *)
(*                                  process                                *)
(*   src/src/random_bq_to_anndata.py  get_cell_data, random_bq_to_anndata  *)
(*                                                                         *)
(* Python positions are 0-based; a Python list l is the sequence whose     *)
(* element p+1 is l[p].  Fractional counts are held in tenths (39 is 3.9). *)
(*                                                                         *)
(* Four specifications share the module:                                   *)
(*   SpecWriter    write_avro, called again and again on one file          *)
(*   SpecRecon     the reconstruction loop of random_bq_to_anndata over a  *)
(*                 query result, which ORDER BY has sorted                 *)
(*   SpecReconAny  the same loop over rows in any order                    *)
(*   SpecForward   process (the three dumps), then get_cell_data on the    *)
(*                 dumped files and the reconstruction loop                *)
(***************************************************************************)
EXTENDS Integers, Sequences, FiniteSets, TLC

VARIABLES
    \* ---- write_avro (SpecWriter)
    wpc,            \* "idle" | "loop" | "returned"
    gen,            \* the records generator() yields, in order
    flush_batch_size,
    progress_batch_size,
    w,              \* the locals of the running write_avro and the file it has open
    fileAtOpen,     \* the file's records when write_avro opened it
    calls,          \* invocations of write_avro started so far
    sameGen,        \* every invocation so far was given the same generator
    \* ---- the reconstruction loop (SpecRecon, SpecReconAny)
    rpc,            \* "loop" | "done"
    cell_data,      \* list(cell_data): the rows of the query result
    r,              \* the locals of random_bq_to_anndata
    \* ---- process and the way back (SpecForward)
    fpc,            \* "start" | "cells" | "features" | "matrix" | "queried" |
                    \* "rebuilt" | "failed"
    adata,          \* the AnnData read from the input file
    args,           \* the command-line arguments of process
    files,          \* the three avro files
    lookups         \* row_index_to_cas_cell_index, col_index_to_cas_feature_index

vars == <<wpc, gen, flush_batch_size, progress_batch_size, w, fileAtOpen, calls,
          sameGen, rpc, cell_data, r, fpc, adata, args, files, lookups>>

writerVars == <<wpc, gen, flush_batch_size, progress_batch_size, w, fileAtOpen,
                calls, sameGen>>
reconVars == <<rpc, cell_data, r>>
forwardVars == <<fpc, adata, args, files, lookups>>

----------------------------------------------------------------------------
\* Bounds of the model.

\* The longest record sequence a generator yields.
MaxRecords == 3
\* The largest progress_batch_size tried.
MaxProgress == 2
\* How many times write_avro is invoked on the same file.
MaxCalls == 2
\* The longest query result the reconstruction loop is run on.
MaxStream == 3
\* The most rows (cells) and columns (features) of the matrix process dumps.
MaxRows == 2
MaxCols == 2

----------------------------------------------------------------------------
\* Helpers on sequences.

RECURSIVE Flatten(_)
Flatten(ss) == IF ss = <<>> THEN <<>> ELSE Head(ss) \o Flatten(Tail(ss))

Range(s) == {s[i] : i \in 1..Len(s)}

\* The generators tried: generator() yields the records 1, 2, ..., R.
Generators == {[i \in 1..R |-> i] : R \in 0..MaxRecords}

----------------------------------------------------------------------------
\* write_avro (anndata_to_bq.py, lines 16-35)

\* open(filename, 'w+b'): a bug that truncates the file.
OpenTruncate(file) == <<>>

\* open(filename, 'a+b'): the file keeps its records and writes go to its end.
OpenAppend(file) == file

\* writer(out, parsed_schema, records) on a file opened for appending: the batch
\* goes after what the file holds.
writer(out, batch) == out \o batch

\* The locals before the loop (lines 17-20); `batches` lists the arguments of the
\* writer calls made so far and `reports` the counters printed.
write_avro_enter(file) ==
    [out |-> OpenAppend(file), records |-> <<>>, counter |-> 0,
     batches |-> <<>>, reports |-> <<>>]

\* One pass of the loop body (lines 22-32) for the record the generator yields.
write_avro_iter(st, record, F, P) ==
    LET counter == st.counter + 1
        records == Append(st.records, record)
        flush   == counter % F = 0
    IN  [out     |-> IF flush THEN writer(st.out, records) ELSE st.out,
         records |-> IF flush THEN <<>> ELSE records,
         counter |-> counter,
         batches |-> IF flush THEN Append(st.batches, records) ELSE st.batches,
         reports |-> IF counter % P = 0 THEN Append(st.reports, counter)
                                        ELSE st.reports]

\* A bug: the loop's last partial batch is never written.
write_avro_exit_noflush(st) == st

\* After the loop (lines 34-35): a non-empty buffer is written; the list itself
\* is not cleared.
write_avro_exit(st) ==
    IF Len(st.records) > 0
    THEN [st EXCEPT !.out = writer(st.out, st.records),
                    !.batches = Append(st.batches, st.records)]
    ELSE st

\* The whole of write_avro, for the callers in process.
RECURSIVE write_avro_loop(_, _, _, _)
write_avro_loop(st, g, F, P) ==
    IF g = <<>> THEN st
    ELSE write_avro_loop(write_avro_iter(st, Head(g), F, P), Tail(g), F, P)

write_avro(g, file, F, P) ==
    write_avro_exit(write_avro_loop(write_avro_enter(file), g, F, P)).out

Idle == [out |-> <<>>, records |-> <<>>, counter |-> 0, batches |-> <<>>,
         reports |-> <<>>]

\* write_avro is called: the file is opened and the locals are set.
WriteAvroCall ==
    /\ wpc \in {"idle", "returned"}
    /\ calls < MaxCalls
    /\ \E g \in Generators, F \in 1..(MaxRecords + 1), P \in 1..MaxProgress :
          /\ gen' = g
          /\ flush_batch_size' = F
          /\ progress_batch_size' = P
          /\ sameGen' = (sameGen /\ (calls = 0 \/ g = gen))
    /\ fileAtOpen' = w.out
    /\ w' = write_avro_enter(w.out)
    /\ calls' = calls + 1
    /\ wpc' = "loop"
    /\ UNCHANGED <<reconVars, forwardVars>>

\* The generator yields its next record and the loop body runs.
WriteAvroIter ==
    /\ wpc = "loop"
    /\ w.counter < Len(gen)
    /\ w' = write_avro_iter(w, gen[w.counter + 1], flush_batch_size,
                            progress_batch_size)
    /\ UNCHANGED <<wpc, gen, flush_batch_size, progress_batch_size, fileAtOpen,
                   calls, sameGen, reconVars, forwardVars>>

\* The generator is exhausted: the last batch is written and write_avro returns.
WriteAvroReturn ==
    /\ wpc = "loop"
    /\ w.counter = Len(gen)
    /\ w' = write_avro_exit(w)
    /\ wpc' = "returned"
    /\ UNCHANGED <<gen, flush_batch_size, progress_batch_size, fileAtOpen,
                   calls, sameGen, reconVars, forwardVars>>

----------------------------------------------------------------------------
\* The reconstruction loop of random_bq_to_anndata (random_bq_to_anndata.py,
\* lines 37-87)

\* Python's None.
None == "None"

\* The warehouse the loop's rows come from.  Cells 1 and 2 carry the same
\* original_cell_id (a barcode two samples share); the features are distinct.
CellInfoTable ==
    { [cas_cell_index |-> 1, original_cell_id |-> "a", cell_type |-> "T"],
      [cas_cell_index |-> 2, original_cell_id |-> "a", cell_type |-> "B"],
      [cas_cell_index |-> 3, original_cell_id |-> "b", cell_type |-> "T"] }

FeatureInfoTable ==
    { [cas_feature_index |-> 1, original_feature_id |-> "g", feature_name |-> "G"],
      [cas_feature_index |-> 2, original_feature_id |-> "h", feature_name |-> "H"] }

\* One row of the join of get_cell_data (line 27): a matrix entry with the
\* columns of its cell and of its feature.
JoinRow(cell, feature, count) ==
    [cas_cell_index      |-> cell.cas_cell_index,
     original_cell_id    |-> cell.original_cell_id,
     cell_type           |-> cell.cell_type,
     cas_feature_index   |-> feature.cas_feature_index,
     original_feature_id |-> feature.original_feature_id,
     feature_name        |-> feature.feature_name,
     count               |-> count]

JoinRows ==
    { JoinRow(c, f, 10 * c.cas_cell_index + f.cas_feature_index) :
        c \in CellInfoTable, f \in FeatureInfoTable }

\* ORDER BY matrix.cas_cell_index, matrix.cas_feature_index (line 27).
RowLeq(a, b) ==
    \/ a.cas_cell_index < b.cas_cell_index
    \/ /\ a.cas_cell_index = b.cas_cell_index
       /\ a.cas_feature_index <= b.cas_feature_index

IsOrdered(s) == \A i \in 1..(Len(s) - 1) : RowLeq(s[i], s[i + 1])

\* The locals before the loop (lines 37-49); `i` counts the rows consumed.
recon_enter ==
    [i |-> 0, col_count |-> 0, feature_to_column |-> <<>>, row_num |-> -1,
     last_original_cell_id |-> None, last_cell_type |-> None,
     indptr |-> <<0>>, indices |-> <<>>, data |-> <<>>,
     cell_names |-> <<>>, cell_types |-> <<>>,
     feature_ids |-> <<>>, feature_names |-> <<>>]

\* Lines 59-69: a row whose original_cell_id differs from the last one closes
\* the row being accumulated (unless there is none yet) and becomes the new one.
recon_row_boundary(st, row) ==
    IF row.original_cell_id # st.last_original_cell_id
    THEN LET closed ==
                 IF st.last_original_cell_id # None
                 THEN [st EXCEPT
                         !.row_num = st.row_num + 1,
                         !.cell_names = Append(st.cell_names, st.last_original_cell_id),
                         !.cell_types = Append(st.cell_types, st.last_cell_type),
                         !.indptr = Append(st.indptr, Len(st.indices))]
                 ELSE st
         IN  [closed EXCEPT !.last_original_cell_id = row.original_cell_id,
                            !.last_cell_type = row.cell_type]
    ELSE st

\* feature_to_column is a dictionary: a function on the labels seen so far.
DictPut(d, k, v) == [x \in (DOMAIN d) \cup {k} |-> IF x = k THEN v ELSE d[x]]

\* A bug: every row is given a new column, seen before or not.
recon_column_always_new(st, row) ==
    [st EXCEPT
        !.feature_to_column = DictPut(st.feature_to_column,
                                      row.original_feature_id, st.col_count),
        !.feature_ids = Append(st.feature_ids, row.original_feature_id),
        !.feature_names = Append(st.feature_names, row.feature_name),
        !.col_count = st.col_count + 1]

\* Lines 71-75: a feature seen for the first time is given the next column.
recon_column(st, row) ==
    IF row.original_feature_id \notin DOMAIN st.feature_to_column
    THEN [st EXCEPT
            !.feature_to_column = DictPut(st.feature_to_column,
                                          row.original_feature_id, st.col_count),
            !.feature_ids = Append(st.feature_ids, row.original_feature_id),
            !.feature_names = Append(st.feature_names, row.feature_name),
            !.col_count = st.col_count + 1]
    ELSE st

\* One pass of the loop body (lines 53-79).
recon_iter(st, row) ==
    LET s1 == recon_row_boundary(st, row)
        s2 == recon_column(s1, row)
        col_num == s2.feature_to_column[row.original_feature_id]
    IN  [s2 EXCEPT !.indices = Append(s2.indices, col_num),
                   !.data = Append(s2.data, row.count),
                   !.i = s2.i + 1]

\* After the loop (lines 82-85): the last row is closed, whether or not the
\* loop saw any row.
recon_exit(st) ==
    [st EXCEPT !.row_num = st.row_num + 1,
               !.cell_names = Append(st.cell_names, st.last_original_cell_id),
               !.cell_types = Append(st.cell_types, st.last_cell_type),
               !.indptr = Append(st.indptr, Len(st.indices))]

\* The whole loop, for SpecForward.
RECURSIVE recon_loop(_, _)
recon_loop(st, rows) ==
    IF rows = <<>> THEN st ELSE recon_loop(recon_iter(st, Head(rows)), Tail(rows))

reconstruct(rows) == recon_exit(recon_loop(recon_enter, rows))

\* The loop takes the next row of list(cell_data).
ReconIter ==
    /\ rpc = "loop"
    /\ r.i < Len(cell_data)
    /\ r' = recon_iter(r, cell_data[r.i + 1])
    /\ UNCHANGED <<rpc, cell_data, writerVars, forwardVars>>

\* The rows are exhausted: "Deal with the last row".
ReconExit ==
    /\ rpc = "loop"
    /\ r.i = Len(cell_data)
    /\ r' = recon_exit(r)
    /\ rpc' = "done"
    /\ UNCHANGED <<cell_data, writerVars, forwardVars>>

----------------------------------------------------------------------------
\* process and its three dumps (anndata_to_bq.py, lines 38-164)

\* process's defaults for arguments that are not given (lines 148-149).
DefaultFlushBatchSize == 10000
DefaultProgressBatchSize == 1000000

\* np.arange(start, stop) from the next value on: a bug.
np_arange_off_by_one(start, stop) ==
    [k \in 1..(IF stop > start THEN stop - start ELSE 0) |-> start + k]

\* np.arange(start, stop): start, start+1, ..., stop-1.
np_arange(start, stop) ==
    [k \in 1..(IF stop > start THEN stop - start ELSE 0) |-> start + k - 1]

\* Lines 74-78 (and 113-116): the new id column, then the lookup list filled
\* position by position from it (column.iloc[[row]][0]).
index_lookup(n, start) ==
    LET column == np_arange(start, start + n)
    IN  [row \in 1..n |-> column[row]]

\* cell_generator (lines 94-101): one record per row of adata.obs, which by now
\* has the columns original_cell_id (its index) and cas_cell_index.
cell_generator(obs, start) ==
    LET column == np_arange(start, start + Len(obs))
    IN  [k \in 1..Len(obs) |->
            [cas_cell_index   |-> column[k],
             original_cell_id |-> obs[k].index,
             cell_type        |-> obs[k].cell_type]]

\* feature_generator (lines 132-139).
feature_generator(var, start) ==
    LET column == np_arange(start, start + Len(var))
    IN  [k \in 1..Len(var) |->
            [cas_feature_index   |-> column[k],
             original_feature_id |-> var[k].index,
             feature_name        |-> var[k].feature_name]]

\* int(v) for v held in tenths: truncation towards zero.
py_int(v) == IF v >= 0 THEN v \div 10 ELSE -((-v) \div 10)

\* The value the matrix stores at (i, j), in tenths.
StoredValue(x, i, j) == 10 * ((MaxCols + 1) * i + j + 1) + x.shift

\* The order in which a sparse layout lists its entries: CSR row by row, CSC
\* column by column.
EntryBefore(layout, a, b) ==
    IF layout = "csr"
    THEN a[1] < b[1] \/ (a[1] = b[1] /\ a[2] <= b[2])
    ELSE a[2] < b[2] \/ (a[2] = b[2] /\ a[1] <= b[1])

RECURSIVE EntriesInOrder(_, _)
EntriesInOrder(layout, entries) ==
    IF entries = {} THEN <<>>
    ELSE LET first == CHOOSE a \in entries :
                          \A b \in entries : EntryBefore(layout, a, b)
         IN  <<first>> \o EntriesInOrder(layout, entries \ {first})

\* x.tocoo(copy=False) (line 53): cx.row, cx.col, cx.data zipped.
tocoo(x) ==
    LET order == EntriesInOrder(x.layout, x.entries)
    IN  [k \in 1..Len(order) |->
            <<order[k][1], order[k][2], StoredValue(x, order[k][1], order[k][2])>>]

\* A bug: the matrix is dumped with the local positions, not the remapped ids.
raw_counts_generator_local(x, row_lookup, col_lookup) ==
    LET cx == tocoo(x)
    IN  [k \in 1..Len(cx) |->
            [cas_cell_index    |-> cx[k][1],
             cas_feature_index |-> cx[k][2],
             raw_counts        |-> py_int(cx[k][3])]]

\* raw_counts_generator (lines 52-65).
raw_counts_generator(x, row_lookup, col_lookup) ==
    LET cx == tocoo(x)
    IN  [k \in 1..Len(cx) |->
            [cas_cell_index    |-> row_lookup[cx[k][1] + 1],
             cas_feature_index |-> col_lookup[cx[k][2] + 1],
             raw_counts        |-> py_int(cx[k][3])]]

\* Lines 148-149: `not flush_batch_size` holds for a missing argument and for 0.
FlushBatchSize ==
    IF args.flush_batch_size = 0 THEN DefaultFlushBatchSize
    ELSE args.flush_batch_size

ProgressBatchSize ==
    IF args.progress_batch_size = 0 THEN DefaultProgressBatchSize
    ELSE args.progress_batch_size

\* dump_cell_info (lines 71-106), called at lines 154-155.
DumpCellInfo ==
    /\ fpc = "start"
    /\ files' = [files EXCEPT !.cell_info =
                    write_avro(cell_generator(adata.obs, args.cas_cell_index_start),
                               files.cell_info, FlushBatchSize, ProgressBatchSize)]
    /\ lookups' = [lookups EXCEPT !.row =
                    index_lookup(Len(adata.obs), args.cas_cell_index_start)]
    /\ fpc' = "cells"
    /\ UNCHANGED <<adata, args, writerVars, reconVars>>

\* dump_feature_info (lines 109-143), called at lines 158-159.
DumpFeatureInfo ==
    /\ fpc = "cells"
    /\ files' = [files EXCEPT !.feature_info =
                    write_avro(feature_generator(adata.var, args.cas_feature_index_start),
                               files.feature_info, FlushBatchSize, ProgressBatchSize)]
    /\ lookups' = [lookups EXCEPT !.col =
                    index_lookup(Len(adata.var), args.cas_feature_index_start)]
    /\ fpc' = "features"
    /\ UNCHANGED <<adata, args, writerVars, reconVars>>

\* dump_core_matrix (lines 38-68), called at lines 163-164 on adata.raw.X.
DumpCoreMatrix ==
    /\ fpc = "features"
    /\ files' = [files EXCEPT !.raw_counts =
                    write_avro(raw_counts_generator(adata.raw_X, lookups.row, lookups.col),
                               files.raw_counts, FlushBatchSize, ProgressBatchSize)]
    /\ fpc' = "matrix"
    /\ UNCHANGED <<adata, args, lookups, writerVars, reconVars>>

----------------------------------------------------------------------------
\* The way back: get_random_ids and get_cell_data (random_bq_to_anndata.py,
\* lines 9-30) on the three files loaded as the warehouse's tables.

Min(S) == CHOOSE x \in S : \A y \in S : x <= y
Max(S) == CHOOSE x \in S : \A y \in S : x >= y

\* get_random_ids (lines 9-18): num_cells of the ids min..max, shuffled.
get_random_ids(cell_info, num_cells) ==
    LET ids   == {cell_info[k].cas_cell_index : k \in 1..Len(cell_info)}
        range == Min(ids)..Max(ids)
    IN  {S \in SUBSET range :
            Cardinality(S) = IF num_cells < Cardinality(range)
                             THEN num_cells ELSE Cardinality(range)}

\* The FROM and WHERE of line 27: every matrix record, cell record and feature
\* record that agree on both ids, the cell's id among random_ids.
JoinOf(tables, random_ids) ==
    LET Match(mr, cr, fr) ==
            IF /\ mr.cas_cell_index = cr.cas_cell_index
               /\ mr.cas_feature_index = fr.cas_feature_index
               /\ mr.cas_cell_index \in random_ids
            THEN <<JoinRow(cr, fr, mr.raw_counts)>>
            ELSE <<>>
        Features(mr, cr) ==
            Flatten([f \in 1..Len(tables.feature_info) |->
                        Match(mr, cr, tables.feature_info[f])])
        Cells(mr) ==
            Flatten([c \in 1..Len(tables.cell_info) |->
                        Features(mr, tables.cell_info[c])])
    IN  Flatten([m \in 1..Len(tables.raw_counts) |-> Cells(tables.raw_counts[m])])

\* ORDER BY matrix.cas_cell_index, matrix.cas_feature_index.
RECURSIVE InsertRow(_, _)
InsertRow(row, sorted) ==
    IF sorted = <<>> THEN <<row>>
    ELSE IF RowLeq(Head(sorted), row)
         THEN <<Head(sorted)>> \o InsertRow(row, Tail(sorted))
         ELSE <<row>> \o sorted

RECURSIVE OrderBy(_)
OrderBy(rows) ==
    IF rows = <<>> THEN <<>>
    ELSE InsertRow(rows[Len(rows)], OrderBy(SubSeq(rows, 1, Len(rows) - 1)))

get_cell_data(tables, random_ids) == OrderBy(JoinOf(tables, random_ids))

\* random_bq_to_anndata up to its loop (lines 34-35): the ids are drawn and the
\* rows are fetched.
GetCellData ==
    /\ fpc = "matrix"
    /\ files.cell_info # <<>>
    /\ \E random_ids \in get_random_ids(files.cell_info, args.num_cells) :
          cell_data' = get_cell_data(files, random_ids)
    /\ fpc' = "queried"
    /\ UNCHANGED <<adata, args, files, lookups, rpc, r, writerVars>>

\* MIN and MAX over an empty cas_cell_info are NULL and int(None) raises
\* (lines 11-12).
GetCellDataFails ==
    /\ fpc = "matrix"
    /\ files.cell_info = <<>>
    /\ fpc' = "failed"
    /\ UNCHANGED <<adata, args, files, lookups, reconVars, writerVars>>

\* The loop of random_bq_to_anndata and the closing of the last row
\* (lines 37-87).
Rebuild ==
    /\ fpc = "queried"
    /\ r' = reconstruct(cell_data)
    /\ fpc' = "rebuilt"
    /\ UNCHANGED <<adata, args, files, lookups, rpc, cell_data, writerVars>>

----------------------------------------------------------------------------
\* Initial states.  Each specification runs one part of the program; the
\* variables of the other parts keep the values given here.

WriterOff ==
    /\ wpc = "off" /\ gen = <<>> /\ flush_batch_size = 1
    /\ progress_batch_size = 1 /\ w = Idle /\ fileAtOpen = <<>>
    /\ calls = 0 /\ sameGen = TRUE

ReconOff == rpc = "off" /\ cell_data = <<>> /\ r = recon_enter

ForwardOff ==
    /\ fpc = "off" /\ adata = <<>> /\ args = <<>> /\ files = <<>>
    /\ lookups = <<>>

\* The file does not exist yet and write_avro has not been called.
InitWriter ==
    /\ wpc = "idle"
    /\ gen = <<>>
    /\ flush_batch_size = 1
    /\ progress_batch_size = 1
    /\ w = Idle
    /\ fileAtOpen = <<>>
    /\ calls = 0
    /\ sameGen = TRUE
    /\ ReconOff
    /\ ForwardOff

\* The AnnData files tried: up to MaxRows cells labelled "a" or "b" (two cells
\* may share a label), up to MaxCols features, and any set of stored entries
\* in either sparse layout, with whole or fractional counts.
SeqsOver(S, n) == UNION { [1..k -> S] : k \in 0..n }

ObsRows == { [index |-> l, cell_type |-> "T"] : l \in {"a", "b"} }

VarRows(n) ==
    [k \in 1..n |-> [index |-> <<"g", k>>, feature_name |-> <<"G", k>>]]

\* The matrix has a row per cell of obs and a column per feature of var.
AnnDatas(obs, m) ==
    { [obs |-> obs, var |-> VarRows(m),
       raw_X |-> [layout |-> layout, entries |-> entries, shift |-> shift]] :
        layout \in {"csr", "csc"}, shift \in {0, 9},
        entries \in SUBSET ((0..(Len(obs) - 1)) \X (0..(m - 1))) }

\* The command lines tried: the defaults, and start offsets with small batches.
Arguments ==
    { [cas_cell_index_start |-> 0, cas_feature_index_start |-> 0,
       flush_batch_size |-> 0, progress_batch_size |-> 0, num_cells |-> MaxRows],
      [cas_cell_index_start |-> 5, cas_feature_index_start |-> 7,
       flush_batch_size |-> 2, progress_batch_size |-> 1, num_cells |-> MaxRows],
      [cas_cell_index_start |-> 5, cas_feature_index_start |-> 7,
       flush_batch_size |-> 1, progress_batch_size |-> 0, num_cells |-> 1] }

\* process is about to run on an input file; no output file exists yet.
InitForward ==
    /\ fpc = "start"
    /\ \E obs \in SeqsOver(ObsRows, MaxRows), m \in 0..MaxCols :
          adata \in AnnDatas(obs, m)
    /\ args \in Arguments
    /\ files = [cell_info |-> <<>>, feature_info |-> <<>>, raw_counts |-> <<>>]
    /\ lookups = [row |-> <<>>, col |-> <<>>]
    /\ rpc = "off" /\ cell_data = <<>> /\ r = recon_enter
    /\ WriterOff

\* Every sequence of at most MaxStream join rows.
Streams == SeqsOver(JoinRows, MaxStream)

\* The loop is about to start on a query result, which ORDER BY has sorted.
InitRecon ==
    /\ rpc = "loop"
    /\ cell_data \in { s \in Streams : IsOrdered(s) }
    /\ r = recon_enter
    /\ WriterOff
    /\ ForwardOff

\* The loop is about to start on rows in any order: the loop itself does not
\* check the order the query promises.
InitReconAny ==
    /\ rpc = "loop"
    /\ cell_data \in Streams
    /\ r = recon_enter
    /\ WriterOff
    /\ ForwardOff

NextWriter == WriteAvroCall \/ WriteAvroIter \/ WriteAvroReturn

SpecWriter == InitWriter /\ [][NextWriter]_vars

NextRecon == ReconIter \/ ReconExit

SpecRecon == InitRecon /\ [][NextRecon]_vars

SpecReconAny == InitReconAny /\ [][NextRecon]_vars

NextForward ==
    \/ DumpCellInfo
    \/ DumpFeatureInfo
    \/ DumpCoreMatrix
    \/ GetCellData
    \/ GetCellDataFails
    \/ Rebuild

SpecForward == InitForward /\ [][NextForward]_vars

----------------------------------------------------------------------------
\* C1 (writer exactly-once): when write_avro returns, the records it handed to
\* the sink during the invocation are exactly the generator's records, each once
\* and in order, for every length R >= 0 and every flush_batch_size >= 1 and
\* progress_batch_size >= 1, and the buffer holds no record that was not written.
C1_ExactlyOnce ==
    wpc = "returned" =>
        /\ Flatten(w.batches) = gen
        /\ w.counter = Len(gen)
        /\ \/ w.records = <<>>
           \/ /\ w.batches # <<>>
              /\ w.records = w.batches[Len(w.batches)]

\* A full batch was flushed inside the loop and a partial batch after it
\* (R = F + 1 with F >= 2).
C1_Witness ==
    /\ wpc = "returned"
    /\ Len(gen) = flush_batch_size + 1
    /\ flush_batch_size >= 2
    /\ Len(w.batches) = 2
    /\ Len(w.batches[2]) = 1

\* C6 (append-mode sink): write_avro on a file holding P with input Q leaves the
\* file holding P followed by Q, and after n invocations with the same R-record
\* input on a file that was empty at first the file holds n*R records.
C6_AppendMode ==
    wpc = "returned" =>
        /\ w.out = fileAtOpen \o gen
        /\ sameGen => Len(w.out) = calls * Len(gen)

\* A second invocation with the same non-empty input on the file of the first.
C6_Witness ==
    /\ wpc = "returned"
    /\ calls = 2
    /\ sameGen
    /\ Len(gen) = 3
    /\ fileAtOpen = gen
    /\ w.out = gen \o gen

----------------------------------------------------------------------------
\* What the claims about the reconstruction loop speak of.

Positions(s) == [i \in 1..Len(s) |-> i]

\* The row groups of a stream: its maximal runs of rows with one cas_cell_index.
\* RunStarts lists the position of each run's first row, RunEnds of its last.
RunStarts(s) ==
    SelectSeq(Positions(s),
              LAMBDA i : i = 1 \/ s[i].cas_cell_index # s[i - 1].cas_cell_index)

RunEnds(s) ==
    SelectSeq(Positions(s),
              LAMBDA i : i = Len(s) \/ s[i].cas_cell_index # s[i + 1].cas_cell_index)

\* Every cas_cell_index of the stream forms one run.
GroupedByRow(s) ==
    \A i, k \in 1..Len(s) :
        (i < k /\ s[i].cas_cell_index = s[k].cas_cell_index) =>
            \A j \in i..k : s[j].cas_cell_index = s[i].cas_cell_index

\* The positions at which a column label occurs for the first time.
FirstSeen(s) ==
    SelectSeq(Positions(s),
              LAMBDA i : \A j \in 1..(i - 1) :
                            s[j].original_feature_id # s[i].original_feature_id)

Occurrences(x, s) == Cardinality({k \in 1..Len(s) : s[k] = x})

\* C3 (row pointers): for a non-empty stream grouped by row, with row groups of
\* sizes n_1..n_g, the loop ends with indptr = [0, n_1, n_1+n_2, ...], whose last
\* entry is len(indices) = len(data) = the number of rows read; k rows of one
\* cell give one output row and indptr = [0, k].
C3_RowPointers ==
    (rpc = "done" /\ cell_data # <<>> /\ GroupedByRow(cell_data)) =>
        /\ r.indptr = <<0>> \o RunEnds(cell_data)
        /\ r.indptr[Len(r.indptr)] = Len(r.indices)
        /\ Len(r.indices) = Len(r.data)
        /\ Len(r.data) = Len(cell_data)
        /\ (Len(RunEnds(cell_data)) = 1) =>
              /\ Len(r.cell_names) = 1
              /\ r.indptr = <<0, Len(cell_data)>>

\* C4 (column dictionary): after the pass over any stream, feature_ids holds
\* each column label of the stream once, in the order of first occurrence,
\* feature_names is parallel to it, and the k-th entry of indices is the
\* position in feature_ids of the k-th row's column label.
C4_ColumnDictionary ==
    rpc = "done" =>
        LET first == FirstSeen(cell_data) IN
        /\ r.feature_ids = [k \in 1..Len(first) |->
                               cell_data[first[k]].original_feature_id]
        /\ r.feature_names = [k \in 1..Len(first) |->
                               cell_data[first[k]].feature_name]
        /\ Len(r.indices) = Len(cell_data)
        /\ \A k \in 1..Len(cell_data) :
              /\ r.indices[k] \in 0..(Len(r.feature_ids) - 1)
              /\ r.feature_ids[r.indices[k] + 1] = cell_data[k].original_feature_id

\* Feature 2 ("h") is met before feature 1 ("g") and once more after it: the
\* columns are in the order of first occurrence, not of label or of global id.
C4_Witness ==
    /\ rpc = "done"
    /\ Len(cell_data) = 3
    /\ r.feature_ids = <<"h", "g">>
    /\ r.indices = <<0, 1, 0>>

\* C7 (row-group boundary): the loop closes the row being accumulated and starts
\* a new output row exactly when the incoming row's cas_cell_index differs from
\* that of the rows being accumulated, whatever their labels.
C7_RowGroupBoundary ==
    [][ (rpc = "loop" /\ r'.i = r.i + 1) =>
            ( (Len(r'.indptr) = Len(r.indptr) + 1)
              <=> ( /\ r.i >= 1
                    /\ cell_data[r.i + 1].cas_cell_index
                          # cell_data[r.i].cas_cell_index ) ) ]_vars

\* Two rows of one cell are separated by a row of another cell.
Ungrouped(s) == ~GroupedByRow(s)

\* C9 (ungrouped input): when two rows of one cell are separated by a row of
\* another cell, the loop ends without an error, with one output row per
\* contiguous run, so that the cell's label is in cell_names more than once.
C9_UngroupedInput ==
    (rpc = "done" /\ Ungrouped(cell_data)) =>
        /\ Len(r.cell_names) = Len(RunEnds(cell_data))
        /\ \A i, k \in 1..Len(cell_data) :
              ( /\ i < k
                /\ cell_data[i].cas_cell_index = cell_data[k].cas_cell_index
                /\ \E j \in i..k : cell_data[j].cas_cell_index
                                      # cell_data[i].cas_cell_index )
              => Occurrences(cell_data[i].original_cell_id, r.cell_names) > 1

\* C10 (row metadata count): after the pass over any stream, the empty one
\* included, len(cell_names) = len(cell_types) = len(indptr) - 1 = the number of
\* row groups of the stream, and each entry is the label or the category of the
\* first row of its row group.
C10_RowMetadataCount ==
    rpc = "done" =>
        LET starts == RunStarts(cell_data) IN
        /\ Len(r.cell_names) = Len(starts)
        /\ Len(r.cell_types) = Len(starts)
        /\ Len(r.indptr) - 1 = Len(starts)
        /\ \A k \in 1..Len(starts) :
              /\ r.cell_names[k] = cell_data[starts[k]].original_cell_id
              /\ r.cell_types[k] = cell_data[starts[k]].cell_type

----------------------------------------------------------------------------
\* What the claims about process and the round trip speak of.

\* l maps the local positions 0..n-1, in order, onto the ids start..start+n-1.
IsRemap(l, n, start) ==
    /\ Len(l) = n
    /\ \A p \in 0..(n - 1) : l[p + 1] = start + p
    /\ Range(l) = start..(start + n - 1)
    /\ Cardinality(Range(l)) = n

\* C5 (remap bijection): the lookup dump_cell_info returns maps each local
\* position p of 0..N-1 to the id S+p, N distinct ids that are exactly
\* S..S+N-1 in positional order, for every N >= 0; likewise dump_feature_info.
C5_RemapBijection ==
    /\ fpc \in {"cells", "features", "matrix", "queried", "rebuilt", "failed"} =>
          IsRemap(lookups.row, Len(adata.obs), args.cas_cell_index_start)
    /\ fpc \in {"features", "matrix", "queried", "rebuilt", "failed"} =>
          IsRemap(lookups.col, Len(adata.var), args.cas_feature_index_start)

\* Both lookups were built for two positions from start offsets that are not 0.
C5_Witness ==
    /\ fpc = "features"
    /\ lookups.row = <<5, 6>>
    /\ lookups.col = <<7, 8>>

\* The positions of the records of a file that carry the id `id` in `field`.
WithId(file, field, id) == {k \in 1..Len(file) : file[k][field] = id}

\* C8 (remapper reuse): the triplet written to raw_counts for the entry (i, j)
\* of the dumped matrix carries the cas_cell_index of the cell_info record of
\* row i and the cas_feature_index of the feature_info record of column j, and
\* so joins to exactly one cell record and one feature record, those of the
\* row and the column the entry came from.
C8_RemapperReuse ==
    fpc \in {"matrix", "queried", "rebuilt", "failed"} =>
        LET cx == tocoo(adata.raw_X) IN
        /\ Len(files.raw_counts) = Len(cx)
        /\ \A k \in 1..Len(cx) :
              LET t == files.raw_counts[k]
                  i == cx[k][1]
                  j == cx[k][2]
              IN  /\ t.cas_cell_index = files.cell_info[i + 1].cas_cell_index
                  /\ t.cas_feature_index = files.feature_info[j + 1].cas_feature_index
                  /\ WithId(files.cell_info, "cas_cell_index", t.cas_cell_index)
                        = {i + 1}
                  /\ WithId(files.feature_info, "cas_feature_index",
                            t.cas_feature_index) = {j + 1}
                  /\ files.cell_info[i + 1].original_cell_id = adata.obs[i + 1].index
                  /\ files.feature_info[j + 1].original_feature_id
                        = adata.var[j + 1].index

\* A full 2 x 2 matrix in the column-major layout was dumped with start offsets
\* that are not 0.
C8_Witness ==
    /\ fpc = "matrix"
    /\ args.cas_cell_index_start = 5
    /\ adata.raw_X.layout = "csc"
    /\ Len(files.raw_counts) = 4
    /\ files.raw_counts[2].cas_cell_index = 6
    /\ files.raw_counts[2].cas_feature_index = 7

RECURSIVE SumData(_, _)
SumData(data, T) ==
    IF T = {} THEN 0
    ELSE LET t == CHOOSE x \in T : TRUE
         IN  data[t] + SumData(data, T \ {t})

\* The value at row i, column c (0-based) of csr_matrix((data, indices, indptr)),
\* which sums the entries a row holds for one column.
CsrValue(st, i, c) ==
    SumData(st.data, {t \in (st.indptr[i + 1] + 1)..st.indptr[i + 2] :
                         st.indices[t] = c})

\* The value of the matrix process dumped at (i, j), whole-valued.
SourceValue(x, i, j) ==
    IF <<i, j>> \in x.entries THEN StoredValue(x, i, j) \div 10 ELSE 0

ColumnOrders(n) ==
    {f \in [0..(n - 1) -> 0..(n - 1)] : \A a, b \in 0..(n - 1) : f[a] = f[b] => a = b}

\* The rebuilt matrix has the rows of the dumped one, in order, and its columns
\* in some order.
SameUpToColumns(a, st) ==
    LET n == Len(a.obs)
        m == Len(a.var)
    IN  /\ Len(st.indptr) - 1 = n
        /\ st.col_count = m
        /\ \E pi \in ColumnOrders(m) :
              \A i \in 0..(n - 1), j \in 0..(m - 1) :
                  SourceValue(a.raw_X, i, j) = CsrValue(st, i, pi[j])

\* C2 (round trip): for every whole-valued sparse matrix M with its metadata,
\* the triplets of dump_core_matrix, joined with the dumped metadata, sorted by
\* row id then column id and run through the reconstruction loop give a matrix
\* with the rows of M in their order, equal to M up to a permutation of columns.
C2_RoundTrip ==
    ( /\ fpc = "rebuilt"
      /\ adata.raw_X.shift = 0
      /\ args.num_cells >= Len(adata.obs) )
    => SameUpToColumns(adata, r)

=============================================================================
